---- MODULE Spec2Model ----
(***************************************************************************)
(* rpcp: threaded copy of one file (src/main.rs).                          *)
(*                                                                         *)
(* copy_file splits the source into num_threads slices, spawns one thread  *)
(* per slice that loops pread/pwrite, spawns a progress monitor, joins the *)
(* workers and the monitor and returns Ok(infile_size); main then runs     *)
(* verify_copy when --verify was given.                                    *)
(*                                                                         *)
(* Sizes are scaled: the 1 MiB transfer buffer and the 1 MiB small-file    *)
(* threshold (equal in the source) are both BufSize = SmallFile = 2 bytes, *)
(* the 10 MiB verification buffer is VerifyBuf = 2 bytes.  Files are       *)
(* sequences of bytes, 1-indexed: file offset o is element o+1.  The copy   *)
(* never inspects a byte, so it is run on two contents per length: all      *)
(* zeros, and the one whose byte at offset o is o+1 (all distinct, none      *)
(* zero); verify_copy is run on every pair of files over the bytes 0..1.    *)
(***************************************************************************)
EXTENDS Integers, Sequences, FiniteSets, TLC

MaxSize == 3
MaxThreads == 2
MaxVerifySize == 4

BufSize == 2
SmallFile == 2
VerifyBuf == 2


VARIABLES
    requested,        \* cli.threads, passed to copy_file as num_threads
    verify,           \* cli.verify
    src,              \* content of the input file
    dest,             \* content of the output file
    srcChanged,       \* another process has modified the input file
    mainpc,           \* position of the main thread
    infile_size,      \* infile.metadata()?.len()
    num_threads,      \* the mutable local num_threads of copy_file
    slice,            \* infile_size / num_threads
    spawned,          \* number of worker threads spawned so far
    joined,           \* number of worker threads joined so far
    wpc,              \* position of each worker thread
    pos,              \* each worker's cursor
    buffer,           \* buffer[..size_bytes_read] of each worker
    processed_bytes,  \* the shared AtomicUsize
    mon,              \* position of the monitor thread
    ioIssued,         \* some worker has called pread or pwrite
    step,             \* verify_copy: loop variable
    off1,             \* verify_copy: stream position of in1
    off2,             \* verify_copy: stream position of in2
    vres,             \* verify_copy: result
    shortRead,        \* verify_copy: some read returned less than was available
    chunksRead,       \* verify_copy: number of loop iterations entered
    unevenRead,       \* verify_copy: some pair of reads had different lengths
    sawDiff           \* verify_copy: some pair of reads returned different bytes

copyVars == <<infile_size, num_threads, slice, spawned, joined, wpc, pos,
              buffer, processed_bytes, mon, ioIssued>>
verVars == <<step, off1, off2, vres, shortRead, chunksRead, unevenRead, sawDiff>>
vars == <<requested, verify, src, dest, srcChanged, mainpc, copyVars, verVars>>

Threads == 0..(MaxThreads - 1)

Min(a, b) == IF a < b THEN a ELSE b
Max(a, b) == IF a > b THEN a ELSE b

\* Every file of at most n bytes over the bytes 0..1.
SeqsUpTo(n) == UNION {[1..k -> 0..1] : k \in 0..n}

\* The input files of the copy: k zero bytes, or the bytes 1, 2, ..., k.
Zeros(k) == [i \in 1..k |-> 0]
Ramp(k) == [i \in 1..k |-> i]
Sources == {Zeros(k) : k \in 0..MaxSize} \cup {Ramp(k) : k \in 0..MaxSize}

\* Bytes [off, off+n) of file f.
Bytes(f, off, n) == SubSeq(f, off + 1, off + n)

\* Lengths a read of at most cap bytes at offset off of file f may return:
\* 0 at or past end of file, otherwise between 1 and what is available.
ReadLens(f, off, cap) ==
    IF off >= Len(f) THEN {0} ELSE 1..Min(cap, Len(f) - off)

\* File::set_len: truncate, or extend with zeros.
SetLen(f, n) == [i \in 1..n |-> IF i <= Len(f) THEN f[i] ELSE 0]

\* A pwrite on a descriptor opened for appending: the offset is ignored.
PWriteAppend(f, data, off) == f \o data

\* A pwrite one byte too far: pos as i64 + 1.
PWriteShifted(f, data, off) ==
    [i \in 1..Max(Len(f), off + 1 + Len(data)) |->
        IF i > off + 1 /\ i <= off + 1 + Len(data) THEN data[i - off - 1]
        ELSE IF i <= Len(f) THEN f[i] ELSE 0]

\* pwrite(fd, data, off): positional write, extends the file when needed.
PWrite(f, data, off) ==
    [i \in 1..Max(Len(f), off + Len(data)) |->
        IF i > off /\ i <= off + Len(data) THEN data[i - off]
        ELSE IF i <= Len(f) THEN f[i] ELSE 0]

\* The worker's loop bounds: pos starts at thrd_num * slice and the loop
\* runs while pos < (thrd_num + 1) * slice.
RangeStart(thrd_num) == thrd_num * slice
RangeEnd(thrd_num) == (thrd_num + 1) * slice

Init ==
    /\ requested \in 0..MaxThreads
    /\ verify \in BOOLEAN
    /\ src \in Sources
    /\ dest \in {<<>>, [i \in 1..MaxSize |-> 1]}
    /\ srcChanged = FALSE
    /\ mainpc = "open"
    /\ infile_size = 0
    /\ num_threads = requested
    /\ slice = 0
    /\ spawned = 0
    /\ joined = 0
    /\ wpc = [t \in Threads |-> "unspawned"]
    /\ pos = [t \in Threads |-> 0]
    /\ buffer = [t \in Threads |-> <<>>]
    /\ processed_bytes = 0
    /\ mon = "unspawned"
    /\ ioIssued = FALSE
    /\ step = 0
    /\ off1 = 0
    /\ off2 = 0
    /\ vres = "none"
    /\ shortRead = FALSE
    /\ chunksRead = 0
    /\ unevenRead = FALSE
    /\ sawDiff = FALSE

(***************************************************************************)
(* copy_file, main thread                                                  *)
(***************************************************************************)

\* File::open(infile_path) and infile.metadata()?.len().
Open ==
    /\ mainpc = "open"
    /\ infile_size' = Len(src)
    /\ mainpc' = "small"
    /\ UNCHANGED <<requested, verify, src, dest, srcChanged, num_threads, slice,
                   spawned, joined, wpc, pos, buffer, processed_bytes, mon, ioIssued, verVars>>

\* The small-file test left out: num_threads is used as given.
SmallFileThreadsAsGiven(size, n) == n

\* if infile_size < 1 * 1024 * 1024 { num_threads = 1 }
SmallFileThreads(size, n) == IF size < SmallFile THEN 1 ELSE n

SmallCheck ==
    /\ mainpc = "small"
    /\ num_threads' = SmallFileThreads(infile_size, num_threads)
    /\ mainpc' = "create"
    /\ UNCHANGED <<requested, verify, src, dest, srcChanged, infile_size, slice,
                   spawned, joined, wpc, pos, buffer, processed_bytes, mon, ioIssued, verVars>>

\* File::create(outfile_path): creates the file or truncates it to length 0.
Create ==
    /\ mainpc = "create"
    /\ dest' = <<>>
    /\ mainpc' = "set_len"
    /\ UNCHANGED <<requested, verify, src, srcChanged, copyVars, verVars>>

\* copy_file without its set_len call.
PreallocateSkipped ==
    /\ mainpc = "set_len"
    /\ mainpc' = "plan"
    /\ UNCHANGED <<requested, verify, src, dest, srcChanged, copyVars, verVars>>

\* outfile.set_len(infile_size as u64)
Preallocate ==
    /\ mainpc = "set_len"
    /\ dest' = SetLen(dest, infile_size)
    /\ mainpc' = "plan"
    /\ UNCHANGED <<requested, verify, src, srcChanged, copyVars, verVars>>

\* let slice = infile_size / num_threads; a zero divisor panics.
Plan ==
    /\ mainpc = "plan"
    /\ IF num_threads = 0
       THEN /\ mainpc' = "panicked"
            /\ UNCHANGED slice
       ELSE /\ slice' = infile_size \div num_threads
            /\ mainpc' = "spawn"
    /\ UNCHANGED <<requested, verify, src, dest, srcChanged, infile_size,
                   num_threads, spawned, joined, wpc, pos, buffer,
                   processed_bytes, mon, ioIssued, verVars>>

\* for thrd_num in 0..num_threads { thread::spawn(...) }: the new thread
\* starts with let mut pos = thrd_num * slice.
Spawn ==
    /\ mainpc = "spawn"
    /\ IF spawned < num_threads
       THEN /\ wpc' = [wpc EXCEPT ![spawned] = "loop"]
            /\ pos' = [pos EXCEPT ![spawned] = RangeStart(spawned)]
            /\ spawned' = spawned + 1
            /\ UNCHANGED mainpc
       ELSE /\ mainpc' = "spawn_monitor"
            /\ UNCHANGED <<wpc, pos, spawned>>
    /\ UNCHANGED <<requested, verify, src, dest, srcChanged, infile_size,
                   num_threads, slice, joined, buffer, processed_bytes, mon, ioIssued, verVars>>

\* let monitor_handle = thread::spawn(...)
SpawnMonitor ==
    /\ mainpc = "spawn_monitor"
    /\ mon' = "poll"
    /\ mainpc' = "join"
    /\ UNCHANGED <<requested, verify, src, dest, srcChanged, infile_size,
                   num_threads, slice, spawned, joined, wpc, pos, buffer,
                   processed_bytes, ioIssued, verVars>>

\* A join that does not wait: the thread is detached instead of joined.
ThreadFinishedAlways(w) == TRUE

\* t.join() returns once the thread has ended, normally or by a panic.
ThreadFinished(w) == w \in {"done", "panicked"}

\* A join whose result is dropped: let _ = t.join();
JoinOutcomeIgnoresPanic(w) == "join"

\* t.join().unwrap(): join returns Err when the thread panicked, and the
\* unwrap then panics the main thread.
JoinOutcome(w) == IF w = "panicked" THEN "panicked" ELSE "join"

\* for t in threads { t.join().unwrap(); }
Join ==
    /\ mainpc = "join"
    /\ IF joined < num_threads
       THEN /\ ThreadFinished(wpc[joined])
            /\ mainpc' = JoinOutcome(wpc[joined])
            /\ joined' = IF mainpc' = "join" THEN joined + 1 ELSE joined
       ELSE /\ mainpc' = "join_monitor"
            /\ UNCHANGED joined
    /\ UNCHANGED <<requested, verify, src, dest, srcChanged, infile_size,
                   num_threads, slice, spawned, wpc, pos, buffer,
                   processed_bytes, mon, ioIssued, verVars>>

\* monitor_handle.join().unwrap(); Ok(infile_size)
JoinMonitor ==
    /\ mainpc = "join_monitor"
    /\ mon = "done"
    /\ mainpc' = "returned"
    /\ UNCHANGED <<requested, verify, src, dest, srcChanged, copyVars, verVars>>

\* A panic of the main thread ends the process and every thread with it.
ProcessAlive == mainpc # "panicked"

(***************************************************************************)
(* copy_file, worker thread thrd_num                                       *)
(***************************************************************************)

\* An off-by-one loop test: while pos <= (thrd_num + 1) * slice
WhileCondInclusive(thrd_num, p) == p <= RangeEnd(thrd_num)

\* while pos < (thrd_num + 1) * slice
WhileCond(thrd_num, p) == p < RangeEnd(thrd_num)

\* Loop test followed by pread(&*infile, &mut buffer, pos as i64).unwrap();
\* a read of zero bytes takes the else branch: break.
WorkerRead(t) ==
    /\ ProcessAlive
    /\ wpc[t] = "loop"
    /\ IF WhileCond(t, pos[t])
       THEN /\ \E size_bytes_read \in ReadLens(src, pos[t], BufSize) :
                /\ buffer' = [buffer EXCEPT ![t] = Bytes(src, pos[t], size_bytes_read)]
                /\ wpc' = [wpc EXCEPT ![t] = IF size_bytes_read > 0 THEN "write" ELSE "done"]
            /\ ioIssued' = TRUE
       ELSE /\ wpc' = [wpc EXCEPT ![t] = "done"]
            /\ UNCHANGED <<buffer, ioIssued>>
    /\ UNCHANGED <<requested, verify, src, dest, srcChanged, mainpc, infile_size,
                   num_threads, slice, spawned, joined, pos, processed_bytes,
                   mon, verVars>>

\* pread returns Err: unwrap panics the worker thread.
WorkerReadFail(t) ==
    /\ ProcessAlive
    /\ wpc[t] = "loop"
    /\ WhileCond(t, pos[t])
    /\ wpc' = [wpc EXCEPT ![t] = "panicked"]
    /\ ioIssued' = TRUE
    /\ UNCHANGED <<requested, verify, src, dest, srcChanged, mainpc, infile_size,
                   num_threads, slice, spawned, joined, pos, buffer,
                   processed_bytes, mon, verVars>>

\* pwrite(&*outfile, &buffer[..size_bytes_read], pos as i64).unwrap();
\* pos += size_bytes_read;
WorkerWrite(t) ==
    /\ ProcessAlive
    /\ wpc[t] = "write"
    /\ dest' = PWrite(dest, buffer[t], pos[t])
    /\ pos' = [pos EXCEPT ![t] = pos[t] + Len(buffer[t])]
    /\ wpc' = [wpc EXCEPT ![t] = "add"]
    /\ UNCHANGED <<requested, verify, src, srcChanged, mainpc, infile_size,
                   num_threads, slice, spawned, joined, buffer, processed_bytes,
                   mon, ioIssued, verVars>>

\* pwrite returns Err: unwrap panics the worker thread.
WorkerWriteFail(t) ==
    /\ ProcessAlive
    /\ wpc[t] = "write"
    /\ wpc' = [wpc EXCEPT ![t] = "panicked"]
    /\ UNCHANGED <<requested, verify, src, dest, srcChanged, mainpc, infile_size,
                   num_threads, slice, spawned, joined, pos, buffer,
                   processed_bytes, mon, ioIssued, verVars>>

\* processed_bytes.fetch_add(size_bytes_read, Ordering::SeqCst); the
\* iteration ends and size_bytes_read goes out of scope.
WorkerAdd(t) ==
    /\ ProcessAlive
    /\ wpc[t] = "add"
    /\ processed_bytes' = processed_bytes + Len(buffer[t])
    /\ buffer' = [buffer EXCEPT ![t] = <<>>]
    /\ wpc' = [wpc EXCEPT ![t] = "loop"]
    /\ UNCHANGED <<requested, verify, src, dest, srcChanged, mainpc, infile_size,
                   num_threads, slice, spawned, joined, pos, mon,
                   ioIssued, verVars>>

(***************************************************************************)
(* copy_file, progress monitor thread                                      *)
(***************************************************************************)

\* while progress_clone.load(Ordering::SeqCst) < infile_size
MonitorCond(counter, size) == counter < size

\* Loop test; on exit eprint!("\rProgress: 100.0%").
MonitorPoll ==
    /\ ProcessAlive
    /\ mon = "poll"
    /\ IF MonitorCond(processed_bytes, infile_size)
       THEN mon' = "print"
       ELSE mon' = "done"
    /\ UNCHANGED <<requested, verify, src, dest, srcChanged, mainpc, infile_size,
                   num_threads, slice, spawned, joined, wpc, pos, buffer,
                   processed_bytes, ioIssued, verVars>>

\* Second load of the counter, eprint! of the percentage, sleep(50 ms).
MonitorPrint ==
    /\ ProcessAlive
    /\ mon = "print"
    /\ mon' = "poll"
    /\ UNCHANGED <<requested, verify, src, dest, srcChanged, mainpc, infile_size,
                   num_threads, slice, spawned, joined, wpc, pos, buffer,
                   processed_bytes, ioIssued, verVars>>

(***************************************************************************)
(* The input file is an ordinary file that another process may change      *)
(* while the copy runs; one change per run is modelled.                    *)
(***************************************************************************)

Copying == mainpc \in {"small", "create", "set_len", "plan", "spawn",
                       "spawn_monitor", "join", "join_monitor"}

SrcTruncate ==
    /\ Copying
    /\ ~srcChanged
    /\ \E n \in 0..(Len(src) - 1) : src' = SubSeq(src, 1, n)
    /\ srcChanged' = TRUE
    /\ UNCHANGED <<requested, verify, dest, mainpc, copyVars, verVars>>

SrcAppend ==
    /\ Copying
    /\ ~srcChanged
    /\ src' = Append(src, Len(src) + 1)
    /\ srcChanged' = TRUE
    /\ UNCHANGED <<requested, verify, dest, mainpc, copyVars, verVars>>

(***************************************************************************)
(* main after copy_file, and verify_copy                                   *)
(***************************************************************************)

\* if !cli.recursive & cli.verify { verify_copy(&inf, &ouf, copy_size) };
\* verify_copy opens both files, so both streams start at offset 0.
AfterCopy ==
    /\ mainpc = "returned"
    /\ mainpc' = IF verify THEN "verify" ELSE "exit0"
    /\ UNCHANGED <<requested, verify, src, dest, srcChanged, copyVars, verVars>>

\* A comparison of the first byte of each buffer only.
ChunkDiffersFirstByte(n1, n2) ==
    /\ n1 = n2
    /\ n1 > 0
    /\ src[off1 + 1] # dest[off2 + 1]

\* The comparison turned round: == where the source has !=.
ChunkDiffersInverted(n1, n2) ==
    /\ n1 = n2
    /\ Bytes(src, off1, n1) = Bytes(dest, off2, n2)

\* if bytes_read_from_file1 == bytes_read_from_file2 {
\*     if &buffer1[..bytes_read_from_file1] != &buffer2[..bytes_read_from_file2]
ChunkDiffers(n1, n2) ==
    /\ n1 = n2
    /\ Bytes(src, off1, n1) # Bytes(dest, off2, n2)

\* One iteration of for step in (0..file_size).step_by(buffer_size): a read
\* from each stream, then the comparison; Err carries step.
VerifyChunk ==
    /\ mainpc = "verify"
    /\ step < infile_size
    /\ \E bytes_read_from_file1 \in ReadLens(src, off1, VerifyBuf),
          bytes_read_from_file2 \in ReadLens(dest, off2, VerifyBuf) :
        /\ off1' = off1 + bytes_read_from_file1
        /\ off2' = off2 + bytes_read_from_file2
        /\ shortRead' = (\/ shortRead
                         \/ bytes_read_from_file1 < Min(VerifyBuf, Len(src) - off1)
                         \/ bytes_read_from_file2 < Min(VerifyBuf, Len(dest) - off2))
        /\ chunksRead' = chunksRead + 1
        /\ unevenRead' = (unevenRead \/ bytes_read_from_file1 # bytes_read_from_file2)
        /\ sawDiff' = (\/ sawDiff
                       \/ Bytes(src, off1, bytes_read_from_file1)
                              # Bytes(dest, off2, bytes_read_from_file2))
        /\ IF ChunkDiffers(bytes_read_from_file1, bytes_read_from_file2)
           THEN /\ vres' = "mismatch"
                /\ mainpc' = "exit1"
                /\ UNCHANGED step
           ELSE /\ step' = step + VerifyBuf
                /\ UNCHANGED <<vres, mainpc>>
    /\ UNCHANGED <<requested, verify, src, dest, srcChanged, copyVars>>

\* Ok("Verified files are identical.")
VerifyOk ==
    /\ mainpc = "verify"
    /\ step >= infile_size
    /\ vres' = "ok"
    /\ mainpc' = "exit0"
    /\ UNCHANGED <<requested, verify, src, dest, srcChanged, copyVars,
                   step, off1, off2, shortRead, chunksRead, unevenRead, sawDiff>>

(***************************************************************************)
(* Specifications                                                          *)
(***************************************************************************)

MainStep ==
    \/ Open
    \/ SmallCheck
    \/ Create
    \/ Preallocate
    \/ Plan
    \/ Spawn
    \/ SpawnMonitor
    \/ Join
    \/ JoinMonitor
    \/ AfterCopy
    \/ VerifyChunk
    \/ VerifyOk

WorkerStep(t) ==
    \/ WorkerRead(t)
    \/ WorkerWrite(t)
    \/ WorkerAdd(t)

WorkerFail(t) ==
    \/ WorkerReadFail(t)
    \/ WorkerWriteFail(t)

MonitorStep ==
    \/ MonitorPoll
    \/ MonitorPrint

Next ==
    \/ MainStep
    \/ \E t \in Threads : WorkerStep(t)
    \/ \E t \in Threads : WorkerFail(t)
    \/ MonitorStep
    \/ SrcTruncate
    \/ SrcAppend

Spec == Init /\ [][Next]_vars

\* Threads are OS threads: each one that can take a step eventually does.
\* I/O errors and changes of the input file are not bound to happen.
FairSpec ==
    /\ Spec
    /\ WF_vars(MainStep)
    /\ \A t \in Threads : WF_vars(WorkerStep(t))
    /\ WF_vars(MonitorStep)

\* verify_copy on its own, on any pair of files of at most MaxVerifySize bytes,
\* called as main calls it: file_size is the length of the first file.
VerifyInit ==
    /\ requested \in 1..MaxThreads
    /\ verify = TRUE
    /\ src \in SeqsUpTo(MaxVerifySize)
    /\ dest \in SeqsUpTo(MaxVerifySize)
    /\ srcChanged = FALSE
    /\ mainpc = "verify"
    /\ infile_size = Len(src)
    /\ num_threads = SmallFileThreads(infile_size, requested)
    /\ slice = infile_size \div num_threads
    /\ spawned = num_threads
    /\ joined = num_threads
    /\ wpc = [t \in Threads |-> IF t < num_threads THEN "done" ELSE "unspawned"]
    /\ pos = [t \in Threads |-> IF t < num_threads THEN RangeEnd(t) ELSE 0]
    /\ buffer = [t \in Threads |-> <<>>]
    /\ processed_bytes = infile_size
    /\ mon = "done"
    /\ ioIssued = (infile_size > 0)
    /\ step = 0
    /\ off1 = 0
    /\ off2 = 0
    /\ vres = "none"
    /\ shortRead = FALSE
    /\ chunksRead = 0
    /\ unevenRead = FALSE
    /\ sawDiff = FALSE

VerifyNext ==
    \/ VerifyChunk
    \/ VerifyOk

VerifySpec == VerifyInit /\ [][VerifyNext]_vars

(***************************************************************************)
(* Properties                                                              *)
(***************************************************************************)

\* copy_file has returned Ok(infile_size).
CopySucceeded == mainpc \in {"returned", "verify", "exit0", "exit1"}

\* slice has been computed.
Planned == mainpc \in {"spawn", "spawn_monitor", "join", "join_monitor"}
           \/ CopySucceeded
           \/ (mainpc = "panicked" /\ num_threads >= 1)

\* Every worker thread has been joined.
AllJoined == mainpc = "join_monitor" \/ CopySucceeded

\* set_len has been called on the output file.
Preallocated == mainpc = "plan" \/ mainpc = "panicked" \/ Planned

AnyWorkerPanicked == \E t \in Threads : wpc[t] = "panicked"

\* Worker t left its loop through the break of a zero-byte read.
BrokeOnZeroRead(t) == wpc[t] = "done" /\ pos[t] < RangeEnd(t)

AllZero(f) == \A i \in 1..Len(f) : f[i] = 0

\* The offsets in [RangeStart(t), RangeEnd(t)).
Owned(t) == {o \in 0..MaxSize : RangeStart(t) <= o /\ o < RangeEnd(t)}

\* C1: when copy_file returns success on an unmodified source, the
\* destination is byte-identical to the source.
C1_CopyIdentical ==
    (CopySucceeded /\ ~srcChanged /\ requested >= 1) => dest = src

\* C2: the workers' byte ranges are pairwise disjoint and their union is
\* exactly [0, S), the last worker's range ending at S.
C2_RangesPartition ==
    (Planned /\ requested >= 1) =>
        /\ \A t, u \in 0..(num_threads - 1) : t # u => Owned(t) \cap Owned(u) = {}
        /\ UNION {Owned(t) : t \in 0..(num_threads - 1)} = 0..(infile_size - 1)
        /\ RangeEnd(num_threads - 1) = infile_size

\* C3: with an unmodified source and no failing I/O call, copy_file
\* eventually returns, whatever the interleaving and the read lengths.
C3_CopyReturns ==
    <>(\/ CopySucceeded
       \/ srcChanged
       \/ AnyWorkerPanicked
       \/ requested = 0)

\* C4: after a worker's read returned zero bytes before its range end,
\* copy_file never returns success.
C4_ShortReadFails ==
    (\E t \in Threads : BrokeOnZeroRead(t)) => ~CopySucceeded

\* C6: once all workers have been joined the progress counter is at most
\* the source size (stated for an unmodified source and W >= 1).
C6_CounterBounded ==
    (AllJoined /\ ~srcChanged /\ requested >= 1) => processed_bytes <= infile_size

\* C7: from preallocation on, the destination's length is the source size.
C7_DestLength ==
    (Preallocated /\ requested >= 1) => Len(dest) = infile_size

\* C5: a worker whose pread or pwrite failed has panicked; the panic is
\* picked up by the join, copy_file never returns success, and the job
\* ends with the main thread's panic.
C5_IoFailureFailsJob ==
    /\ [](AnyWorkerPanicked => ~CopySucceeded)
    /\ (AnyWorkerPanicked ~> mainpc = "panicked")

\* A worker has panicked while another one ran to the end of its range,
\* and the join has turned the panic into the failure of the job.
C5_Witness ==
    /\ mainpc = "panicked"
    /\ \E t, u \in Threads : wpc[t] = "panicked" /\ wpc[u] = "done" /\ pos[u] > 0

\* C9: copying a zero-length file returns success with an empty
\* destination, without any pread or pwrite, the monitor having terminated.
C9_EmptyFile ==
    (mainpc = "small" /\ infile_size = 0)
        ~> (mainpc = "returned" /\ dest = <<>> /\ ~ioIssued /\ mon = "done")

\* A zero-length file has been copied with more than one thread requested.
C9_Witness ==
    /\ mainpc = "returned"
    /\ infile_size = 0
    /\ requested > 1
    /\ wpc[0] = "done"

\* C10: for an all-zero source the destination left by the workers is the
\* source itself whatever the number of workers, hence the same for one
\* worker and for several.
C10_ZeroFileSameForAllW ==
    (AllJoined /\ ~srcChanged /\ AllZero(src)) => dest = src

\* An all-zero source has been copied by more than one worker.
C10_Witness ==
    /\ CopySucceeded
    /\ ~srcChanged
    /\ AllZero(src)
    /\ num_threads > 1
    /\ \A t \in 0..(num_threads - 1) : wpc[t] = "done" /\ pos[t] > RangeStart(t)

\* verify_copy has returned.
VerifyReturned == vres # "none"

\* The offset carried by Err("File differ at range starting at {step} bytes").
ReportedOffset == step

\* The destination differs from the source in the byte at offset k only.
OneByteDiff(k) ==
    /\ Len(dest) = Len(src)
    /\ k < Len(src)
    /\ \A o \in 0..(Len(src) - 1) : (dest[o + 1] # src[o + 1]) <=> (o = k)

\* C8 as stated: a single differing byte at offset k makes verify_copy
\* fail and report exactly k.
C8_ReportsExactOffset ==
    \A k \in 0..(MaxVerifySize - 1) :
        (VerifyReturned /\ OneByteDiff(k)) =>
            (vres = "mismatch" /\ ReportedOffset = k)

\* C8 amended: when every read returns the whole chunk, a single differing
\* byte at offset k makes verify_copy fail and report the start of the
\* chunk that holds k, i.e. k rounded down to a multiple of the chunk size.
C8_ReportsChunkStart ==
    \A k \in 0..(MaxVerifySize - 1) :
        (VerifyReturned /\ ~shortRead /\ OneByteDiff(k)) =>
            (vres = "mismatch" /\ ReportedOffset = (k \div VerifyBuf) * VerifyBuf)

\* verify_copy has failed on a byte in the middle of the second chunk.
C8_Witness ==
    /\ vres = "mismatch"
    /\ ~shortRead
    /\ \E k \in 0..(MaxVerifySize - 1) :
        OneByteDiff(k) /\ k > VerifyBuf /\ k % VerifyBuf # 0

\* Main has left the spawn loop.
AllSpawned == mainpc \in {"spawn_monitor", "join", "join_monitor"} \/ CopySucceeded

\* C11: every pread returns at most min(buffer size, range end - cursor)
\* bytes, so the pwrite that follows stays inside the worker's own range.
C11_ReadWithinRange ==
    \A t \in Threads :
        (wpc[t] = "write" /\ ~srcChanged /\ requested >= 1) =>
            /\ Len(buffer[t]) <= Min(BufSize, RangeEnd(t) - pos[t])
            /\ RangeStart(t) <= pos[t]
            /\ pos[t] + Len(buffer[t]) <= RangeEnd(t)

\* C13: the effective worker count is at least 1 whatever was requested,
\* so the division infile_size / num_threads is defined and never panics.
C13_WorkersClamped ==
    (mainpc \notin {"open", "small"}) =>
        (num_threads >= 1 /\ ~(mainpc = "panicked" /\ ~AnyWorkerPanicked))

\* C15: a worker exists only once set_len has given the destination its
\* length: no pread or pwrite happens before the preallocation.
C15_PreallocFirst ==
    ((\E t \in Threads : wpc[t] # "unspawned") \/ ioIssued) =>
        (Preallocated /\ Len(dest) >= infile_size)

\* A worker is about to write while main is still spawning threads.
C15_Witness ==
    /\ mainpc = "spawn"
    /\ \E t \in Threads : wpc[t] = "write"
    /\ infile_size > 0
    /\ Len(dest) = infile_size

\* C18: below the small-file threshold exactly one worker is started,
\* whatever was requested, and its range is [0, S).
C18_SmallFileOneWorker ==
    (infile_size < SmallFile /\ mainpc \notin {"open", "small"}) =>
        /\ num_threads = 1
        /\ spawned <= 1
        /\ \A t \in Threads : t >= 1 => wpc[t] = "unspawned"
        /\ Planned => (RangeStart(0) = 0 /\ RangeEnd(0) = infile_size)
        /\ AllSpawned => (spawned = 1 /\ wpc[0] # "unspawned")

\* A one-byte file has been copied by its single worker although several
\* threads were requested.
C18_Witness ==
    /\ CopySucceeded
    /\ infile_size = 1
    /\ requested > 1
    /\ wpc[0] = "done"
    /\ pos[0] = 1

\* C19: with an unchanged source every destination byte below S is the
\* zero of the preallocation or the source byte of the same offset.
C19_WrittenBytesRight ==
    (Preallocated /\ ~srcChanged) =>
        \A o \in 0..(infile_size - 1) :
            o < Len(dest) /\ (dest[o + 1] = 0 \/ dest[o + 1] = src[o + 1])

\* Worker 0 has written into worker 1's range and worker 1 has written
\* too, so some offset was written twice; part of the file is unwritten.
C19_Witness ==
    /\ ~srcChanged
    /\ num_threads = 2
    /\ src = Ramp(infile_size)
    /\ pos[0] > RangeEnd(0)
    /\ wpc[0] \in {"add", "loop", "done"}
    /\ pos[1] > RangeStart(1)
    /\ \E o \in 1..Len(dest) : dest[o] = 0
    /\ \E o \in 1..Len(dest) : dest[o] # 0

\* Every worker thread has been spawned and has left its loop normally.
AllWorkersDone ==
    /\ AllSpawned
    /\ \A t \in 0..(num_threads - 1) : wpc[t] = "done"

\* C12: once all workers have terminated the monitor eventually
\* terminates, even if the counter is still below the total size (stated
\* for the executions in which the source is never modified).
C12_MonitorStopsAfterWorkers ==
    AllWorkersDone ~> (mon = "done" \/ srcChanged)

\* verify_copy has been entered.
VerifyStarted ==
    mainpc = "verify" \/ vres # "none" \/ step > 0 \/ off1 > 0 \/ off2 > 0

\* C14: verify_copy runs only when --verify was given and only after
\* every worker thread has terminated and been joined.
C14_VerifyAfterJoin ==
    VerifyStarted =>
        /\ verify
        /\ joined = num_threads
        /\ \A t \in Threads :
            wpc[t] = IF t < num_threads THEN "done" ELSE "unspawned"

\* verify_copy has read both files after a copy made by several workers.
C14_Witness ==
    /\ vres # "none"
    /\ off1 > 0
    /\ off2 > 0
    /\ num_threads > 1
    /\ \A t \in 0..(num_threads - 1) : pos[t] > RangeStart(t)

\* Where worker t stops, starting from cursor p, when every pread returns
\* all the bytes available, up to the buffer size.
RECURSIVE FullReadEnd(_, _)
FullReadEnd(t, p) ==
    IF p < RangeEnd(t) /\ p < infile_size
    THEN FullReadEnd(t, p + Min(BufSize, infile_size - p))
    ELSE p

\* The destination left by the workers in the executions in which every
\* pread returns all the bytes available.
FullReadDest ==
    [i \in 1..infile_size |->
        IF \E t \in 0..(num_threads - 1) :
               RangeStart(t) < i /\ i <= FullReadEnd(t, RangeStart(t))
        THEN src[i] ELSE 0]

\* C20: the destination left by the workers does not depend on the
\* interleaving nor on the read lengths: every complete execution ends with
\* the bytes the executions with full reads end with.
C20_DestDeterministic ==
    (AllWorkersDone /\ ~srcChanged /\ requested >= 1) => dest = FullReadDest

C17_SuccessMeansIdentical ==
    vres = "ok" =>
        \A o \in 0..(infile_size - 1) :
            o < Len(src) /\ o < Len(dest) /\ src[o + 1] = dest[o + 1]

====
